---- MODULE Spec2Model ----
(***************************************************************************)
(* A state-machine model of the weather kiosk in src/main.py: the Tk event *)
(* loop of WeatherApp, its pending after() timers, the credentials held in *)
(* memory and in the settings table, the setup dialog, the refresh cycle   *)
(* update_weather with its blocking network call, the banner ticker and    *)
(* the idle-cursor timer.                                                  *)
(*                                                                         *)
(* Text written to a widget is a sequence of string tokens (an f-string is *)
(* the sequence of its pieces); Python's None is the value None below.     *)
(* Temperatures and wind speeds are carried in tenths so that int() has    *)
(* something to truncate.                                                  *)
(***************************************************************************)
EXTENDS Integers, Sequences, FiniteSets, Bags, TLC

VARIABLES
    db,              \* the settings table: key -> value, None when the row is absent
    api_key, lat, lon,   \* self.api_key, self.lat, self.lon
    running,         \* FALSE once sys.exit(0) has ended the main loop
    timers,          \* bag of pending after() callbacks, each <<ms, callback>>
    dialogs,         \* number of open setup Toplevel windows
    msgbox,          \* TRUE while the "All fields required." warning is shown
    inflight,        \* update_weather calls that are inside requests.get
    origin,          \* who started the outstanding cycle: "timer", "save" or "none"
    lastCycle,       \* how the latest resolved cycle ended ("none" before the first)
    cursor_visible,  \* self.cursor_visible
    cursor,          \* the cursor option of the root window
    hide_timer,      \* self.hide_timer: "None", "pending" (names a pending timer) or "fired"
    icon_cache,      \* self.icon_cache: the set of cached images <<icon_code, size, n>>
    city_label, temp_label, desc_label, big_icon_label, details_label,
    forecast_items,  \* the 5 forecast cells
    alert_bg,        \* bg of alert_canvas
    alert_msg,       \* text of the alert_text canvas item
    alert_fill,      \* fill of the alert_text canvas item
    alert_x          \* x coordinate of the alert_text canvas item

sched  == <<db, api_key, lat, lon, running, timers, dialogs, msgbox, inflight, origin, lastCycle>>
idle   == <<cursor_visible, cursor, hide_timer>>
render == <<city_label, temp_label, desc_label, big_icon_label, details_label,
            forecast_items, alert_bg, alert_msg, alert_fill>>
vars   == <<sched, idle, icon_cache, render, alert_x>>

----------------------------------------------------------------------------
(* Bounds of the model *)

\* changed saves are explored while fewer than this many refresh timers are pending
MaxRefreshTimers == 2
\* ticker ticks explored by the whole-application specification
MaxTicks == 1

(* Program constants *)
StartX          == 800
WrapBelow       == -1000
ScrollStep      == 2
WrapX           == 800
TickMs          == 35
FirstTickMs     == 2000
RefreshMs       == 600000
FirstRefreshMs  == 500
SetupDelayMs    == 1000
HideMs          == 180000
NCells          == 5

----------------------------------------------------------------------------
(* Python values *)

None == <<"None">>

\* truth value of a string or None, as in "not self.api_key"
Truthy(s) == s # None /\ s # <<>>

IsSpace(c) == c = " "

\* str.strip(): drop leading and trailing whitespace (a string is a sequence of characters)
RECURSIVE LStrip(_)
LStrip(s) == IF s # <<>> /\ IsSpace(Head(s)) THEN LStrip(Tail(s)) ELSE s

RECURSIVE RStrip(_)
RStrip(s) == IF s # <<>> /\ IsSpace(s[Len(s)]) THEN RStrip(SubSeq(s, 1, Len(s) - 1)) ELSE s

\* Strip as it would be if the entries were taken as typed
StripNothing(s) == s

Strip(s) == RStrip(LStrip(s))

\* int(x) of a float given in tenths: truncation toward zero
Int10(t) == IF t >= 0 THEN t \div 10 ELSE -((-t) \div 10)

----------------------------------------------------------------------------
(* The event loop and its timers *)

\* self.after(ms, cb)
After(bag, ms, cb) == bag (+) SetToBag({<<ms, cb>>})

\* the timer leaves the pending set when it fires or is cancelled
Without(bag, t) == bag (-) SetToBag({t})

Pending(cb) == {t \in BagToSet(timers) : t[2] = cb}

\* number of pending timers for a callback
NPending(cb) ==
    LET S == Pending(cb)
        RECURSIVE Sum(_)
        Sum(T) == IF T = {} THEN 0
                  ELSE LET t == CHOOSE u \in T : TRUE
                       IN  CopiesIn(t, timers) + Sum(T \ {t})
    IN  Sum(S)

\* Dispatch as it would be if the fetch ran on a worker thread
DispatchDuringFetch == running

\* Tk runs one callback at a time on the thread that runs mainloop(); requests.get
\* (line 318) does not return to the loop, so nothing is dispatched while a fetch
\* is outstanding.
Dispatch == running /\ inflight = 0

----------------------------------------------------------------------------
(* Credentials and the settings table *)

Keys == {"api_key", "lat", "lon"}

\* what the entries of the setup dialog may hold when SAVE is pressed
KeyInputs == {<<" ">>, <<"k">>, <<" ", "q", " ">>}
LatInputs == {<<>>, <<"1">>, <<"2", " ">>}
LonInputs == {<<>>, <<"3">>, <<" ", "4">>}

\* rows a settings table left by an earlier run may hold: each key absent or saved
StoredRows ==
    {r \in [Keys -> {None, <<"k">>, <<"1">>, <<"3">>}] :
        /\ r["api_key"] \in {None, <<"k">>}
        /\ r["lat"] \in {None, <<"1">>}
        /\ r["lon"] \in {None, <<"3">>}}

\* get_setting(key): the stored value, None when there is no row
get_setting(key) == db[key]

Complete(k, lt, ln) == Truthy(k) /\ Truthy(lt) /\ Truthy(ln)

Configured == Complete(api_key, lat, lon)

\* StartupTimers as it would be if the constructor armed the first cycle
\* without looking at the credentials
StartupTimersUnchecked(k, lt, ln) ==
    After(After(After(EmptyBag, FirstRefreshMs, "update_weather"),
                FirstTickMs, "scroll_alerts"), HideMs, "hide_cursor")

\* __init__, lines 129-135: the timers armed by the constructor
StartupTimers(k, lt, ln) ==
    LET first == IF ~Truthy(k) \/ ~Truthy(lt) \/ ~Truthy(ln)
                 THEN After(EmptyBag, SetupDelayMs, "show_setup_dialog")
                 ELSE After(EmptyBag, FirstRefreshMs, "update_weather")
    IN  After(After(first, FirstTickMs, "scroll_alerts"), HideMs, "hide_cursor")

----------------------------------------------------------------------------
(* The widgets as setup_ui leaves them *)

NoImage == <<>>

InitCell == [day |-> <<"---">>, icon |-> NoImage, temp_feel |-> <<"--deg/--deg">>,
             min_max |-> <<"L:-- H:--">>, humidity |-> <<"H:--%">>, details |-> <<>>]

InitCells == [i \in 0 .. NCells - 1 |-> InitCell]

Init ==
    /\ db \in StoredRows
    /\ api_key = get_setting("api_key")
    /\ lat = get_setting("lat")
    /\ lon = get_setting("lon")
    /\ running = TRUE
    /\ timers = StartupTimers(api_key, lat, lon)
    /\ dialogs = 0
    /\ msgbox = FALSE
    /\ inflight = 0
    /\ origin = "none"
    /\ lastCycle = "none"
    /\ cursor_visible = TRUE
    /\ cursor = "default"
    /\ hide_timer = "pending"
    /\ icon_cache = {}
    /\ city_label = <<"---">>
    /\ temp_label = <<"--deg">>
    /\ desc_label = <<"Loading...">>
    /\ big_icon_label = NoImage
    /\ details_label = <<>>
    /\ forecast_items = InitCells
    /\ alert_bg = "#111"
    /\ alert_msg = <<"Initializing...">>
    /\ alert_fill = "white"
    /\ alert_x = StartX

----------------------------------------------------------------------------
(* Ticker: scroll_alerts, and the idle cursor: reset_cursor_timer, hide_cursor *)

\* ScrollTo without the wrap of line 372
ScrollToNoWrap(x) == x - ScrollStep

\* the x coordinate after one tick that read coordinate x (lines 369-372)
ScrollTo(x) == IF x < WrapBelow THEN WrapX ELSE x - ScrollStep

scroll_alerts(t) ==
    /\ Dispatch
    /\ t \in Pending("scroll_alerts")
    /\ alert_x' = ScrollTo(alert_x)
    /\ timers' = After(Without(timers, t), TickMs, "scroll_alerts")
    /\ UNCHANGED <<db, api_key, lat, lon, running, dialogs, msgbox, inflight, origin,
                   lastCycle, idle, icon_cache, render>>

\* scroll_alerts_error with the re-arming inside the try block
scroll_alerts_error_stops(t) ==
    /\ Dispatch
    /\ t \in Pending("scroll_alerts")
    /\ timers' = Without(timers, t)
    /\ UNCHANGED <<db, api_key, lat, lon, running, dialogs, msgbox, inflight, origin,
                   lastCycle, idle, icon_cache, render, alert_x>>

\* a tick whose access to the banner raises (line 369): the bare except of lines
\* 373-374 swallows it, nothing is moved, and line 375 arms the next tick
scroll_alerts_error(t) ==
    /\ Dispatch
    /\ t \in Pending("scroll_alerts")
    /\ timers' = After(Without(timers, t), TickMs, "scroll_alerts")
    /\ UNCHANGED <<db, api_key, lat, lon, running, dialogs, msgbox, inflight, origin,
                   lastCycle, idle, icon_cache, render, alert_x>>

HideTimer == <<HideMs, "hide_cursor">>

\* Rearm without the after_cancel of lines 141-142
RearmNoCancel(bag, ht) == After(bag, HideMs, "hide_cursor")

\* the pending timers after lines 141-144: the hide timer that self.hide_timer
\* names is cancelled if it is still pending (after_cancel of a timer that has
\* fired does nothing), then a new one is armed
Rearm(bag, ht) ==
    After(IF ht = "pending" THEN Without(bag, HideTimer) ELSE bag, HideMs, "hide_cursor")

\* a <Motion> event on any bound widget
reset_cursor_timer ==
    /\ Dispatch
    /\ cursor' = IF ~cursor_visible THEN "arrow" ELSE cursor
    /\ cursor_visible' = TRUE
    /\ timers' = Rearm(timers, hide_timer)
    /\ hide_timer' = "pending"
    /\ UNCHANGED <<db, api_key, lat, lon, running, dialogs, msgbox, inflight, origin,
                   lastCycle, icon_cache, render, alert_x>>

\* hide_cursor without line 148
hide_cursor_keeps_flag ==
    /\ Dispatch
    /\ BagIn(HideTimer, timers)
    /\ cursor' = "none"
    /\ timers' = Without(timers, HideTimer)
    /\ hide_timer' = "fired"
    /\ UNCHANGED <<db, api_key, lat, lon, running, dialogs, msgbox, inflight, origin,
                   lastCycle, cursor_visible, icon_cache, render, alert_x>>

hide_cursor ==
    /\ Dispatch
    /\ BagIn(HideTimer, timers)
    /\ cursor' = "none"
    /\ cursor_visible' = FALSE
    /\ timers' = Without(timers, HideTimer)
    /\ hide_timer' \in IF hide_timer # "pending" THEN {hide_timer}
                        ELSE IF CopiesIn(HideTimer, timers) = 1 THEN {"fired"}
                        ELSE {"fired", "pending"}
    /\ UNCHANGED <<db, api_key, lat, lon, running, dialogs, msgbox, inflight, origin,
                   lastCycle, icon_cache, render, alert_x>>

----------------------------------------------------------------------------
(* Configuration gate: show_setup_dialog and its buttons *)

\* update_weather up to the point where it blocks in requests.get (lines 315-318):
\* with incomplete credentials it returns at once and nothing changes
EnterUpdate(k, lt, ln, who) ==
    IF ~Truthy(k) \/ ~Truthy(lt) \/ ~Truthy(ln)
    THEN UNCHANGED <<inflight, origin>>
    ELSE inflight' = inflight + 1 /\ origin' = who

\* the after(1000, show_setup_dialog) armed by __init__ fires
show_setup_dialog_timer(t) ==
    /\ Dispatch
    /\ t \in Pending("show_setup_dialog")
    /\ timers' = Without(timers, t)
    /\ dialogs' = dialogs + 1
    /\ UNCHANGED <<db, api_key, lat, lon, running, msgbox, inflight, origin, lastCycle,
                   idle, icon_cache, render, alert_x>>

\* the CONFIGURATION button; an open dialog holds the grab, so the button is dead
show_setup_dialog_button ==
    /\ Dispatch
    /\ dialogs = 0
    /\ ~msgbox
    /\ dialogs' = dialogs + 1
    /\ UNCHANGED <<db, api_key, lat, lon, running, timers, msgbox, inflight, origin,
                   lastCycle, idle, icon_cache, render, alert_x>>

\* Changed as it would be if every accepted save refreshed
ChangedAlways(k, lt, ln) == TRUE

\* line 299: the comparison of the submitted strings with the ones in memory
Changed(k, lt, ln) == (k # api_key \/ lt # lat \/ ln # lon)

\* Valid as it would be if one filled field were enough
ValidAny(k, lt, ln) == k # <<>> \/ lt # <<>> \/ ln # <<>>

\* line 298: every stripped entry is a non-empty string
Valid(k, lt, ln) == k # <<>> /\ lt # <<>> /\ ln # <<>>

\* SAVE & REFRESH with the three entries holding ek, elt, eln (lines 296-307)
save(ek, elt, eln) ==
    /\ Dispatch
    /\ dialogs > 0
    /\ ~msgbox
    /\ LET k  == Strip(ek)
           lt == Strip(elt)
           ln == Strip(eln)
           changed == Changed(k, lt, ln)
       IN  IF Valid(k, lt, ln)
           THEN /\ changed => NPending("update_weather") < MaxRefreshTimers
                /\ db' = [db EXCEPT !["api_key"] = k, !["lat"] = lt, !["lon"] = ln]
                /\ api_key' = k
                /\ lat' = lt
                /\ lon' = ln
                /\ dialogs' = dialogs - 1
                /\ IF changed THEN EnterUpdate(k, lt, ln, "save")
                              ELSE UNCHANGED <<inflight, origin>>
                /\ UNCHANGED msgbox
           ELSE /\ msgbox' = TRUE
                /\ UNCHANGED <<db, api_key, lat, lon, dialogs, inflight, origin>>
    /\ UNCHANGED <<running, timers, lastCycle, idle, icon_cache, render, alert_x>>

\* the order of the save_setting calls of lines 300-302
WriteOrder == <<"api_key", "lat", "lon">>

\* the settings table after the first n of the three save_setting calls: each
\* call commits its own row (lines 98-103)
Written(rows, k, lt, ln, n) ==
    [key \in Keys |-> IF \E i \in 1 .. n : WriteOrder[i] = key
                      THEN (CASE key = "api_key" -> k [] key = "lat" -> lt [] OTHER -> ln)
                      ELSE rows[key]]

\* SAVE & REFRESH on valid entries, with save_setting raising (sqlite3 error) on
\* the call after n of them went through: the exception leaves save() inside
\* lines 300-302 and Tk reports it; lines 303-305 are not reached
save_write_error(ek, elt, eln, n) ==
    /\ Dispatch
    /\ dialogs > 0
    /\ ~msgbox
    /\ Valid(Strip(ek), Strip(elt), Strip(eln))
    /\ db' = Written(db, Strip(ek), Strip(elt), Strip(eln), n)
    /\ UNCHANGED <<api_key, lat, lon, running, timers, dialogs, msgbox, inflight, origin,
                   lastCycle, idle, icon_cache, render, alert_x>>

\* the user closes the "All fields required." warning
dismiss_warning ==
    /\ Dispatch
    /\ msgbox
    /\ msgbox' = FALSE
    /\ UNCHANGED <<db, api_key, lat, lon, running, timers, dialogs, inflight, origin,
                   lastCycle, idle, icon_cache, render, alert_x>>

\* CANCEL: setup.destroy
cancel ==
    /\ Dispatch
    /\ dialogs > 0
    /\ ~msgbox
    /\ dialogs' = dialogs - 1
    /\ UNCHANGED <<db, api_key, lat, lon, running, timers, msgbox, inflight, origin,
                   lastCycle, idle, icon_cache, render, alert_x>>

\* QUIT APP: sys.exit(0) leaves mainloop
quit_app ==
    /\ Dispatch
    /\ dialogs > 0
    /\ ~msgbox
    /\ running' = FALSE
    /\ UNCHANGED <<db, api_key, lat, lon, timers, dialogs, msgbox, inflight, origin,
                   lastCycle, idle, icon_cache, render, alert_x>>

----------------------------------------------------------------------------
(* Refresh cycle: update_weather *)

\* an after(..., update_weather) timer fires: the call runs up to requests.get
update_weather_timer(t) ==
    /\ Dispatch
    /\ t \in Pending("update_weather")
    /\ timers' = Without(timers, t)
    /\ EnterUpdate(api_key, lat, lon, "timer")
    /\ UNCHANGED <<db, api_key, lat, lon, running, dialogs, msgbox, lastCycle,
                   idle, icon_cache, render, alert_x>>

----------------------------------------------------------------------------
(* Python dicts, lists and string methods used by the composition *)

Has(d, k) == k \in DOMAIN d

\* d.get(k, dflt)
Get(d, k, dflt) == IF k \in DOMAIN d THEN d[k] ELSE dflt

Min(a, b) == IF a <= b THEN a ELSE b

\* lst[a:b] for 0 <= a <= b: the elements at 0-based positions a .. b-1 that exist
Slice(lst, a, b) == SubSeq(lst, a + 1, Min(b, Len(lst)))

\* s.split('/')[-1] on a string given as tokens with "/" a token of its own
RECURSIVE LastSegment(_)
LastSegment(s) ==
    IF \E i \in 1 .. Len(s) : s[i] = "/" THEN LastSegment(Tail(s)) ELSE s

\* s.replace('_', ' ')
Underscores(s) == [i \in 1 .. Len(s) |-> IF s[i] = "_" THEN " " ELSE s[i]]

\* str.capitalize() on the descriptions the provider sends in this model
Capitalize(s) ==
    CASE s = "clear sky"  -> "Clear sky"
      [] s = "Light Rain" -> "Light rain"
      [] s = "few clouds" -> "Few clouds"
      [] OTHER            -> s

\* str.upper() on the event names the provider sends in this model
Upper(s) ==
    CASE s = "Flood"        -> "FLOOD"
      [] s = "heat warning" -> "HEAT WARNING"
      [] OTHER              -> s

\* f"{v / 1000:.1f}" for v a multiple of 100
Km1(v) == <<ToString(v \div 1000), ".", ToString((v % 1000) \div 100)>>

Weekdays == <<"MON", "TUE", "WED", "THU", "FRI", "SAT", "SUN">>

\* datetime.fromtimestamp(dt).strftime("%a").upper() on a host whose zone is UTC
\* (1 January 1970 was a Thursday)
DayAbbr(dt) == Weekdays[(((dt \div 86400) + 3) % 7) + 1]

----------------------------------------------------------------------------
(* Icon cache: get_weather_icon *)

\* files present under images/: <<code, size>> stands for images/{code}_t{size}.png
IconFiles == {<<"01d", "@2x">>, <<"01d", "@4x">>, <<"10n", "@2x">>, <<"02d", "@2x">>,
              <<"02d", "@4x">>}

\* files that exist and that Pillow fails to decode
BadIconFiles == {<<"02d", "@4x">>}

NoPhoto == <<>>

\* self.icon_cache: a PhotoImage is <<icon_code, size, n>>, the n-th image decoded
\* from images/{icon_code}_t{size}.png; the entries stored under a cache key
Cached(cache, cache_key) == {p \in cache : <<p[1], p[2]>> = cache_key}

\* lines 154-165: the file is looked for, decoded and stored under its key; the
\* pair (returned image or NoPhoto for None, cache afterwards)
LoadIcon(cache, icon_code, size) ==
    LET cache_key == <<icon_code, size>>
        old   == Cached(cache, cache_key)
        photo == <<icon_code, size, IF old = {} THEN 1 ELSE 1 + (CHOOSE p \in old : TRUE)[3]>>
    IN  IF cache_key \notin IconFiles THEN [img |-> NoPhoto, cache |-> cache]
        ELSE IF cache_key \in BadIconFiles THEN [img |-> NoPhoto, cache |-> cache]
        ELSE [img |-> photo, cache |-> (cache \ old) \cup {photo}]

\* get_weather_icon without the lookup of lines 152-153
get_weather_icon_uncached(cache, icon_code, size) == LoadIcon(cache, icon_code, size)

\* lines 150-165
get_weather_icon(cache, icon_code, size) ==
    LET old == Cached(cache, <<icon_code, size>>)
    IN  IF old # {} THEN [img |-> CHOOSE p \in old : TRUE, cache |-> cache]
        ELSE LoadIcon(cache, icon_code, size)

----------------------------------------------------------------------------
(* What the provider may answer.  Two data sets g = 1, 2 differ in every     *)
(* field, so that a widget shows which answer it was written from.           *)

Drop(d, ks) == [k \in DOMAIN d \ ks |-> d[k]]

Timezone(g) == IF g = 1 THEN <<"America", "/", "New", "_", "York">>
                        ELSE <<"Europe", "/", "London">>

WeatherOf(g) == IF g = 1 THEN [description |-> "clear sky", icon |-> "01d"]
                         ELSE [description |-> "Light Rain", icon |-> "10n"]

\* temperatures and wind speed in tenths; visibility in metres
CurrentOf(g) ==
    IF g = 1
    THEN [temp |-> 729, feels_like |-> 705, humidity |-> 40, wind_speed |-> 58,
          uvi |-> 3, visibility |-> 10000, weather |-> <<WeatherOf(1)>>]
    ELSE [temp |-> -4, feels_like |-> -21, humidity |-> 85, wind_speed |-> 129,
          uvi |-> 7, visibility |-> 4800, weather |-> <<WeatherOf(2)>>]

\* noon UTC of 15 November 2023, the dt of daily entry 0
Dt0 == 19676 * 86400 + 43200

\* the daily entry at 0-based position j
DayEntry(g, j) ==
    LET d == 500 + 100 * g + 10 * j + 7
        e == [dt |-> Dt0 + j * 86400,
              temp |-> [day |-> d, min |-> d - 55, max |-> d + 48],
              feels_like |-> [day |-> d - 13],
              humidity |-> 40 + 10 * g + j,
              weather |-> <<IF j % 2 = 0 THEN [description |-> "few clouds", icon |-> "02d"]
                                         ELSE WeatherOf(g)>>,
              rain |-> j]
    IN  IF j % 2 = 0 THEN Drop(e, {"rain"}) ELSE e

\* n daily entries; the one at 0-based position bad (if any) lacks feels_like
DailyOf(g, n, bad) ==
    [i \in 1 .. n |-> IF i - 1 = bad THEN Drop(DayEntry(g, i - 1), {"feels_like"})
                                     ELSE DayEntry(g, i - 1)]

AlertList == <<[event |-> "Flood", sender_name |-> "NWS", description |-> "Heavy\nrain"],
               [event |-> "heat warning", sender_name |-> "Met Office", description |-> "Hot"]>>

\* A response is described by: kind ("raise": requests.get or .json() raises;
\* "error": a JSON body without 'current'; "payload"), the data set g, the keys
\* missing from 'current', the number n of daily entries (-1: no 'daily' key), the
\* position bad of a malformed daily entry (-1: none), the number of alerts
\* (-1: no 'alerts' key), and whether an error body carries 'message'.
BodyOf(rs) ==
    IF rs.kind = "error"
    THEN IF rs.message THEN [cod |-> "401", message |-> "Invalid API key"]
                       ELSE [cod |-> "401"]
    ELSE LET full == [timezone |-> Timezone(rs.g),
                      current  |-> Drop(CurrentOf(rs.g), rs.missing),
                      daily    |-> DailyOf(rs.g, IF rs.n < 0 THEN 0 ELSE rs.n, rs.bad),
                      alerts   |-> SubSeq(AlertList, 1, IF rs.alerts < 0 THEN 0 ELSE rs.alerts)]
         IN  Drop(full, (IF rs.n < 0 THEN {"daily"} ELSE {})
                        \cup (IF rs.alerts < 0 THEN {"alerts"} ELSE {}))

RaiseResponse == [kind |-> "raise", g |-> 1, missing |-> {}, n |-> -1, bad |-> -1,
                  alerts |-> -1, message |-> FALSE]

ErrorResponses == {[RaiseResponse EXCEPT !.kind = "error", !.message = m] : m \in BOOLEAN}

MissingSets == {{}, {"temp"}, {"feels_like"}, {"uvi"}, {"visibility"},
                {"uvi", "visibility"}, {"feels_like", "uvi", "visibility"}}

DailyShapes == {<<-1, -1>>, <<3, -1>>, <<6, -1>>, <<7, -1>>, <<7, 2>>}

PayloadResponse(g, ms, ds, a) ==
    [kind |-> "payload", g |-> g, missing |-> ms, n |-> ds[1], bad |-> ds[2],
     alerts |-> a, message |-> FALSE]

\* every response of the model: the failures and, for each data set, the complete
\* payload varied in its missing keys, in its daily entries and in its alerts
AllResponses ==
    {RaiseResponse} \cup ErrorResponses
    \cup {PayloadResponse(g, ms, <<7, -1>>, -1) : g \in {1, 2}, ms \in MissingSets}
    \cup {PayloadResponse(g, {}, ds, -1) : g \in {1, 2}, ds \in DailyShapes}
    \cup {PayloadResponse(g, {}, <<7, -1>>, a) : g \in {1, 2}, a \in {0, 1, 2}}

\* one response of each outcome, for the specification of the whole application:
\* the fetch raises, an error body, a complete payload, a payload whose
\* composition raises part-way, a complete payload with an alert
FewResponses ==
    {RaiseResponse,
     [RaiseResponse EXCEPT !.kind = "error", !.message = TRUE],
     PayloadResponse(1, {}, <<7, -1>>, -1),
     PayloadResponse(2, {"temp"}, <<7, -1>>, -1),
     PayloadResponse(2, {}, <<7, -1>>, 1)}

----------------------------------------------------------------------------
(* Composition and publish: the body of update_weather after the fetch       *)

\* the widgets and the icon cache, as one record
Shown ==
    [city |-> city_label, temp |-> temp_label, desc |-> desc_label,
     big |-> big_icon_label, det |-> details_label, cells |-> forecast_items,
     bg |-> alert_bg, msg |-> alert_msg, fill |-> alert_fill, cache |-> icon_cache]

\* the first statement of lines 322-334 that raises for 'current' = cur:
\* 2 temp, 3 description, 4 icon, 5 detail block; 6 when none does
CurrentFail(cur) ==
    IF ~Has(cur, "temp") THEN 2
    ELSE IF ~(Has(cur, "weather") /\ Len(cur["weather"]) > 0
              /\ Has(cur["weather"][1], "description")) THEN 3
    ELSE IF ~Has(cur["weather"][1], "icon") THEN 4
    ELSE IF ~(Has(cur, "feels_like") /\ Has(cur, "humidity") /\ Has(cur, "wind_speed")) THEN 5
    ELSE 6

\* the detail block, lines 329-333
DetailText(cur) ==
    <<"Feels: ", ToString(Int10(cur["feels_like"])), "deg\nHumid: ",
      ToString(cur["humidity"]), "%\nWind:  ", ToString(Int10(cur["wind_speed"])),
      " mph\nUV:    ", ToString(Get(cur, "uvi", 0)), "\nVis:   ">>
    \o Km1(Get(cur, "visibility", 0)) \o <<" km">>

\* the first statement of lines 338-349 that raises for daily entry d:
\* 1 weather, 2 temp, 3 day name, 4 temp/feel, 5 min/max, 6 humidity, 7 tooltip,
\* 8 icon; 9 when none does
CellFail(d) ==
    IF ~(Has(d, "weather") /\ Len(d["weather"]) > 0) THEN 1
    ELSE IF ~Has(d, "temp") THEN 2
    ELSE IF ~Has(d, "dt") THEN 3
    ELSE IF ~(Has(d["temp"], "day") /\ Has(d, "feels_like") /\ Has(d["feels_like"], "day")) THEN 4
    ELSE IF ~(Has(d["temp"], "min") /\ Has(d["temp"], "max")) THEN 5
    ELSE IF ~Has(d, "humidity") THEN 6
    ELSE IF ~Has(d["weather"][1], "description") THEN 7
    ELSE IF ~Has(d["weather"][1], "icon") THEN 8
    ELSE 9

\* the texts of a forecast cell built from a well-formed daily entry d
CellDay(d)      == <<DayAbbr(d["dt"])>>
CellTempFeel(d) == <<ToString(Int10(d["temp"]["day"])), "deg/",
                     ToString(Int10(d["feels_like"]["day"])), "deg">>
CellMinMax(d)   == <<"L:", ToString(Int10(d["temp"]["min"])), " H:",
                     ToString(Int10(d["temp"]["max"]))>>
CellHumidity(d) == <<"H:", ToString(d["humidity"]), "%">>
CellDetails(d)  == <<Capitalize(d["weather"][1]["description"]), "\nRain: ",
                     ToString(Get(d, "rain", 0)), "mm">>

\* one pass of the loop body, lines 338-349, on cell c with cache: the cell and
\* the cache afterwards, and whether the pass completed
FillCell(c, d, cache) ==
    LET f  == CellFail(d)
        ic == IF f > 8 THEN get_weather_icon(cache, d["weather"][1]["icon"], "@2x")
                       ELSE [img |-> NoPhoto, cache |-> cache]
    IN  [cell |-> [day       |-> IF f > 3 THEN CellDay(d) ELSE c.day,
                   temp_feel |-> IF f > 4 THEN CellTempFeel(d) ELSE c.temp_feel,
                   min_max   |-> IF f > 5 THEN CellMinMax(d) ELSE c.min_max,
                   humidity  |-> IF f > 6 THEN CellHumidity(d) ELSE c.humidity,
                   details   |-> IF f > 7 THEN CellDetails(d) ELSE c.details,
                   icon      |-> IF ic.img # NoPhoto THEN ic.img ELSE c.icon],
         cache |-> ic.cache,
         ok |-> f > 8]

\* ForecastDays as it would be with the slice [0:5]
ForecastDaysFromToday(body) == Slice(Get(body, "daily", <<>>), 0, 5)

\* the entries the forecast loop enumerates: res.get("daily", [])[1:6]
ForecastDays(body) == Slice(Get(body, "daily", <<>>), 1, 6)

\* the loop of lines 337-349 from its i-th pass on, over the entries days
RECURSIVE Forecast(_, _, _, _)
Forecast(days, i, cells, cache) ==
    IF i >= Len(days) THEN [cells |-> cells, cache |-> cache, ok |-> TRUE]
    ELSE LET r == FillCell(cells[i], days[i + 1], cache)
             cells1 == [cells EXCEPT ![i] = r.cell]
         IN  IF r.ok THEN Forecast(days, i + 1, cells1, r.cache)
                     ELSE [cells |-> cells1, cache |-> r.cache, ok |-> FALSE]

\* "  |  ".join(...) of line 354 over the alerts from position i on
RECURSIVE AlertText(_, _)
AlertText(alerts, i) ==
    LET a == alerts[i]
        one == <<"(!) ", Upper(a["event"]), ": ", a["sender_name"]>>
    IN  IF i = Len(alerts) THEN one ELSE one \o <<"  |  ">> \o AlertText(alerts, i + 1)

AlertsOk(alerts) ==
    \A i \in 1 .. Len(alerts) : Has(alerts[i], "event") /\ Has(alerts[i], "sender_name")

\* lines 321-360 for a body that has 'current', starting from the widgets w:
\* the widgets afterwards and how the cycle ended
Publish(w, body, clock) ==
    LET cur  == body["current"]
        f    == CurrentFail(cur)
        big  == IF f > 4 THEN get_weather_icon(w.cache, cur["weather"][1]["icon"], "@4x")
                         ELSE [img |-> NoPhoto, cache |-> w.cache]
        fc   == IF f > 5 THEN Forecast(ForecastDays(body), 0, w.cells, big.cache)
                         ELSE [cells |-> w.cells, cache |-> big.cache, ok |-> FALSE]
        alerts == Get(body, "alerts", <<>>)
        done == fc.ok /\ AlertsOk(alerts)
    IN  [city  |-> Underscores(LastSegment(Get(body, "timezone", <<"Local">>))),
         temp  |-> IF f > 2 THEN <<ToString(Int10(cur["temp"])), "deg">> ELSE w.temp,
         desc  |-> IF f > 3 THEN <<Capitalize(cur["weather"][1]["description"])>> ELSE w.desc,
         big   |-> IF big.img # NoPhoto THEN big.img ELSE w.big,
         det   |-> IF f > 5 THEN DetailText(cur) ELSE w.det,
         cells |-> fc.cells,
         cache |-> fc.cache,
         bg    |-> IF ~done THEN w.bg ELSE IF alerts # <<>> THEN "darkred" ELSE "#111",
         msg   |-> IF ~done THEN w.msg
                   ELSE IF alerts # <<>> THEN AlertText(alerts, 1)
                   ELSE <<"Last Sync: ", clock>>,
         fill  |-> IF ~done THEN w.fill ELSE IF alerts # <<>> THEN "white" ELSE "gray",
         outcome |-> IF done THEN "ok" ELSE "parseerr"]

\* Cycle as it would be if a failed cycle blanked the current conditions
CycleBlanksOnFailure(w, rs, clock) ==
    IF rs.kind = "raise"
    THEN [w EXCEPT !.temp = <<"--deg">>, !.outcome = "neterr"]
    ELSE LET body == BodyOf(rs)
         IN  IF Has(body, "current") THEN Publish(w, body, clock)
             ELSE [w EXCEPT !.temp = <<"--deg">>,
                            !.desc = <<"API Error: ", Get(body, "message", "Check Settings")>>,
                            !.outcome = "nocurrent"]

\* lines 316-364 once requests.get has returned or raised
Cycle(w, rs, clock) ==
    IF rs.kind = "raise" THEN [w EXCEPT !.outcome = "neterr"]
    ELSE LET body == BodyOf(rs)
         IN  IF Has(body, "current") THEN Publish(w, body, clock)
             ELSE [w EXCEPT !.desc = <<"API Error: ", Get(body, "message", "Check Settings")>>,
                            !.outcome = "nocurrent"]

\* the wall-clock readings '%H:%M' of the model
Clocks == {"09:00"}

\* ArmNext as it would be with the after() call inside the try block
ArmNextOnSuccess(bag, outcome) ==
    IF outcome = "ok" THEN After(bag, RefreshMs, "update_weather") ELSE bag

\* line 365, reached however the try block ended: the timers afterwards
ArmNext(bag, outcome) == After(bag, RefreshMs, "update_weather")

\* BannerX with the banner text put back at its starting place when it is replaced
BannerXReset(x, outcome) == IF outcome = "ok" THEN StartX ELSE x

\* the banner's x coordinate after the cycle: alert_canvas.config(bg=...) and
\* itemconfig(text=..., fill=...) at lines 355-360 name no coordinate
BannerX(x, outcome) == x

\* the blocked requests.get returns or raises, the rest of update_weather runs
\* and arms the next cycle (lines 318-365)
update_weather_return(rs, clock) ==
    /\ running
    /\ inflight > 0
    /\ \E r \in {Cycle([k \in DOMAIN Shown \cup {"outcome"} |->
                          IF k = "outcome" THEN "none" ELSE Shown[k]], rs, clock)} :
           /\ city_label' = r.city
           /\ temp_label' = r.temp
           /\ desc_label' = r.desc
           /\ big_icon_label' = r.big
           /\ details_label' = r.det
           /\ forecast_items' = r.cells
           /\ alert_bg' = r.bg
           /\ alert_msg' = r.msg
           /\ alert_fill' = r.fill
           /\ icon_cache' = r.cache
           /\ lastCycle' = r.outcome
    /\ timers' = ArmNext(timers, lastCycle')
    /\ inflight' = inflight - 1
    /\ origin' = "none"
    /\ alert_x' = BannerX(alert_x, lastCycle')
    /\ UNCHANGED <<db, api_key, lat, lon, running, dialogs, msgbox, idle>>

----------------------------------------------------------------------------
(* Specifications *)

\* the whole application; the ticker is followed for MaxTicks ticks
Next ==
    \/ \E t \in Pending("scroll_alerts") :
           alert_x > StartX - ScrollStep * MaxTicks /\ scroll_alerts(t)
    \/ reset_cursor_timer
    \/ hide_cursor
    \/ \E t \in Pending("show_setup_dialog") : show_setup_dialog_timer(t)
    \/ show_setup_dialog_button
    \/ \E ek \in KeyInputs, elt \in LatInputs, eln \in LonInputs : save(ek, elt, eln)
    \/ dismiss_warning
    \/ cancel
    \/ quit_app
    \/ \E t \in Pending("update_weather") : update_weather_timer(t)
    \/ \E rs \in FewResponses, clock \in Clocks : update_weather_return(rs, clock)

Spec == Init /\ [][Next]_vars

\* Spec with the refresh timers firing fairly: an after() callback that stays due
\* is run by mainloop
FairSpec ==
    Spec /\ WF_vars(\E t \in Pending("update_weather") : update_weather_timer(t))

\* the refresh cycle alone, over every response of the model
NextRender ==
    \/ \E t \in Pending("update_weather") : update_weather_timer(t)
    \/ \E rs \in AllResponses, clock \in Clocks : update_weather_return(rs, clock)

SpecRender == Init /\ [][NextRender]_vars

\* the ticker alone, through its whole travel
NextTicker == \E t \in Pending("scroll_alerts") : scroll_alerts(t)

SpecTicker == Init /\ [][NextTicker]_vars

\* the ticker through its whole travel, failing ticks included, next to the
\* timer-driven refresh cycle
NextBanner ==
    \/ \E t \in Pending("scroll_alerts") : scroll_alerts(t)
    \/ \E t \in Pending("scroll_alerts") : scroll_alerts_error(t)
    \/ \E t \in Pending("update_weather") : update_weather_timer(t)
    \/ \E rs \in FewResponses, clock \in Clocks : update_weather_return(rs, clock)

SpecBanner == Init /\ [][NextBanner]_vars

\* SpecBanner with mainloop running every after() callback that is due: a tick
\* that is due again and again between refresh cycles is run (strong fairness),
\* a refresh timer that stays due is run.  The return of requests.get(url) at
\* line 318 is the provider's step and carries no fairness: the call has no
\* timeout, and a provider that never answers keeps the call from returning.
FairBanner ==
    /\ SpecBanner
    /\ SF_vars(\E t \in Pending("scroll_alerts") : scroll_alerts(t))
    /\ WF_vars(\E t \in Pending("update_weather") : update_weather_timer(t))

\* the setup dialog, with saves that the settings store may fail, next to the
\* refresh cycle
NextStore ==
    \/ \E t \in Pending("show_setup_dialog") : show_setup_dialog_timer(t)
    \/ show_setup_dialog_button
    \/ \E ek \in KeyInputs, elt \in LatInputs, eln \in LonInputs : save(ek, elt, eln)
    \/ \E ek \in KeyInputs, elt \in LatInputs, eln \in LonInputs, n \in 0 .. Len(WriteOrder) - 1 :
           save_write_error(ek, elt, eln, n)
    \/ dismiss_warning
    \/ cancel
    \/ quit_app
    \/ \E t \in Pending("update_weather") : update_weather_timer(t)
    \/ \E rs \in FewResponses, clock \in Clocks : update_weather_return(rs, clock)

SpecStore == Init /\ [][NextStore]_vars

----------------------------------------------------------------------------
(* Properties *)

RefreshTimer == <<RefreshMs, "update_weather">>

\* a step in which an outstanding update_weather call resolves
CycleResolves == inflight' < inflight

\* C1: at most one fetch is in flight: update_weather is never entered while
\* another update_weather call is still inside its network request.
C1_OneFetchInFlight == inflight <= 1

\* a forced refresh is outstanding while a refresh timer is pending
C1_Witness == inflight = 1 /\ origin = "save" /\ NPending("update_weather") >= 1

\* C2: at most one armed refresh timer exists, so timer-driven cycles are at
\* least the fixed interval apart (counted here: the 600 s timers alone, leaving
\* the 500 ms timer of the constructor aside).
C2_AtMostOneRefreshTimer == CopiesIn(RefreshTimer, timers) <= 1

\* C3: every cycle that resolves, however it ended, adds one refresh timer of the
\* fixed interval; and while the application runs, a resolved cycle is always
\* followed by another fetch attempt.
C3_EveryCycleRearms ==
    /\ [][CycleResolves =>
             CopiesIn(RefreshTimer, timers') = CopiesIn(RefreshTimer, timers) + 1]_vars
    /\ (lastCycle # "none" /\ inflight = 0 /\ running) ~> (inflight > 0 \/ ~running)

\* a cycle whose fetch raised has resolved and a refresh timer is pending
C3_Witness == lastCycle = "neterr" /\ inflight = 0 /\ BagIn(RefreshTimer, timers)

\* a cycle resolves with a network error or a body without 'current'
FailedCycle == CycleResolves /\ lastCycle' \in {"neterr", "nocurrent"}

C5_SaveFetchesIffChanged ==
    [][\A ek \in KeyInputs, elt \in LatInputs, eln \in LonInputs :
          (/\ Strip(ek) # <<>> /\ Strip(elt) # <<>> /\ Strip(eln) # <<>>
           /\ <<api_key', lat', lon'>> = <<Strip(ek), Strip(elt), Strip(eln)>>
           /\ save(ek, elt, eln))
          => /\ UNCHANGED timers
             /\ IF <<Strip(ek), Strip(elt), Strip(eln)>> # <<api_key, lat, lon>>
                THEN inflight' = inflight + 1 /\ origin' = "save"
                ELSE UNCHANGED <<inflight, origin>>]_vars

\* a changed save has forced a cycle while the application was configured before
C5_Witness ==
    /\ origin = "save"
    /\ inflight = 1
    /\ lastCycle = "ok"
    /\ dialogs = 0
    /\ <<api_key, lat, lon>> = <<db["api_key"], db["lat"], db["lon"]>>

\* C6: while a credential is absent or empty no fetch is outstanding and no
\* refresh timer is armed.
C6_InertWhileUnconfigured ==
    ~Configured => (inflight = 0 /\ NPending("update_weather") = 0 /\ lastCycle = "none")

\* unconfigured, a submission with an empty field was just rejected
C6_Witness == ~Configured /\ msgbox /\ dialogs > 0

\* the render targets a cycle would leave when started from widgets w
RenderAfter(w, rs, clock) ==
    LET r == Cycle(w, rs, clock)
    IN  <<r.city, r.temp, r.desc, r.big, r.det, r.cells, r.bg, r.msg, r.fill>>

\* the widgets as setup_ui leaves them, with the icon cache as it is now
BlankShown ==
    [city |-> <<"---">>, temp |-> <<"--deg">>, desc |-> <<"Loading...">>,
     big |-> NoImage, det |-> <<>>, cells |-> InitCells,
     bg |-> "#111", msg |-> <<"Initializing...">>, fill |-> "white",
     cache |-> icon_cache, outcome |-> "none"]

NowShown == [k \in DOMAIN BlankShown |-> IF k = "outcome" THEN "none" ELSE Shown[k]]

\* C7: a cycle on a payload that has 'current' leaves the render targets either
\* all as they were or all written from its own payload, so that what is shown
\* does not depend on what was shown before the cycle.
C7_PublishIsAtomic ==
    [][\A rs \in AllResponses, clock \in Clocks :
          (CycleResolves /\ rs.kind = "payload" /\ update_weather_return(rs, clock)) =>
              \/ UNCHANGED render
              \/ RenderAfter(NowShown, rs, clock) = RenderAfter(BlankShown, rs, clock)]_vars

\* C8: a payload whose 'current' lacks only optional fields (feels-like, UV index,
\* visibility) and is otherwise well formed is published completely.
C8_OptionalFieldsNeverAbort ==
    [][\A rs \in AllResponses, clock \in Clocks :
          (/\ CycleResolves
           /\ rs.kind = "payload"
           /\ rs.missing \subseteq {"feels_like", "uvi", "visibility"}
           /\ rs.bad = -1
           /\ update_weather_return(rs, clock))
          => lastCycle' = "ok"]_vars

\* C9: after a successful cycle on a payload with at least 6 daily entries there
\* are 5 forecast cells and cell i shows daily entry i+1; no cell shows entry 0
\* or an entry beyond 5.
C9_CellsAreDaysOneToFive ==
    [][\A rs \in AllResponses, clock \in Clocks :
          (/\ CycleResolves
           /\ lastCycle' = "ok"
           /\ rs.kind = "payload"
           /\ rs.n >= 6
           /\ city_label' = Underscores(LastSegment(Timezone(rs.g)))
           /\ update_weather_return(rs, clock))
          => LET daily == BodyOf(rs)["daily"]
             IN  /\ DOMAIN forecast_items' = 0 .. 4
                 /\ \A i \in 0 .. 4 :
                        LET d == daily[i + 2]
                            c == forecast_items'[i]
                        IN  /\ c.day = CellDay(d)
                            /\ c.temp_feel = CellTempFeel(d)
                            /\ c.min_max = CellMinMax(d)
                            /\ c.humidity = CellHumidity(d)
                            /\ c.details = CellDetails(d)
                            /\ <<d["weather"][1]["icon"], "@2x">> \in IconFiles \ BadIconFiles
                                   => c.icon = <<d["weather"][1]["icon"], "@2x", 1>>
                            /\ \A j \in {1} \cup (7 .. Len(daily)) :
                                   c.humidity # CellHumidity(daily[j])]_vars

\* a successful cycle on 7 daily entries of data set 2: the last cell shows entry 5
C9_Witness ==
    /\ lastCycle = "ok"
    /\ forecast_items[4].humidity = CellHumidity(DayEntry(2, 5))
    /\ forecast_items[0].humidity = CellHumidity(DayEntry(2, 1))

\* C10: the banner offset stays between the wrap threshold less one step and
\* 800; a tick moves it left by the step, except that a tick that reads an
\* offset below the threshold puts it back at exactly 800.
C10_TickerOffsetWraps ==
    /\ [](WrapBelow - ScrollStep <= alert_x /\ alert_x <= StartX)
    /\ [][(\E t \in Pending("scroll_alerts") : scroll_alerts(t)) =>
              IF alert_x < WrapBelow THEN alert_x' = WrapX
                                     ELSE alert_x' = alert_x - ScrollStep]_vars

\* the banner is back at 800 after a wrap: the pending tick is a 35 ms one
C10_Witness == alert_x = WrapX /\ BagIn(<<TickMs, "scroll_alerts">>, timers)

\* C11: a stalled network call cannot delay the ticker for ever: whatever the
\* fetch does, ticker ticks keep being served, infinitely often.
C11_TicksInfinitelyOften ==
    []<><<\E t \in Pending("scroll_alerts") : scroll_alerts(t)>>_vars

\* C12: the idle monitor never leaks timers: at most one hide timer is pending,
\* every arming leaves exactly the one it armed (the prior one is cancelled
\* first), and re-arming twice gives the same pending timers as re-arming once.
C12_NoHideTimerLeak ==
    /\ [](NPending("hide_cursor") <= 1)
    /\ [](Rearm(Rearm(timers, hide_timer), "pending") = Rearm(timers, hide_timer))
    /\ [][reset_cursor_timer =>
              /\ CopiesIn(HideTimer, timers') = 1
              /\ hide_timer' = "pending"]_vars

\* the hide timer fired, and an interaction armed a new one
C12_Witness ==
    /\ cursor = "arrow"
    /\ hide_timer = "pending"
    /\ CopiesIn(HideTimer, timers) = 1

\* str.replace("\n", " ") on the descriptions of AlertList
Flatten(s) ==
    CASE s = "Heavy\nrain" -> "Heavy rain"
      [] OTHER            -> s

\* the alert banner as the specification words it: for each alert the upper-cased
\* event name, then that alert's description with its newlines flattened
RECURSIVE DescribedAlerts(_, _)
DescribedAlerts(alerts, i) ==
    LET a == alerts[i]
        one == <<"(!) ", Upper(a["event"]), ": ", Flatten(a["description"])>>
    IN  IF i = Len(alerts) THEN one ELSE one \o <<"  |  ">> \o DescribedAlerts(alerts, i + 1)

\* C13: after a successful cycle the banner is determined by the alerts of the
\* response: with none it is the last-sync line in the idle styling; with one or
\* more it is in the alert styling and its text is the separator-joined list of
\* each alert's upper-cased event name followed by that alert's description,
\* newlines flattened.
C13_BannerFromAlerts ==
    [][\A rs \in AllResponses, clock \in Clocks :
          CycleResolves /\ lastCycle' = "ok" /\ update_weather_return(rs, clock) =>
              LET alerts == Get(BodyOf(rs), "alerts", <<>>)
              IN  IF alerts = <<>>
                  THEN /\ alert_msg' = <<"Last Sync: ", clock>>
                       /\ alert_bg' = "#111"
                       /\ alert_fill' = "gray"
                  ELSE /\ alert_msg' = DescribedAlerts(alerts, 1)
                       /\ alert_bg' = "darkred"
                       /\ alert_fill' = "white"]_vars

\* the cache keys get_weather_icon is asked for: 10n@4x has no file, 02d@4x has a
\* file that does not decode
IconKeys == {"01d", "10n", "02d"} \X {"@2x", "@4x"}

\* C14: the icon cache memoizes: a key whose asset loads is decoded at most once
\* and has one cached image; a later call for it returns that same image and
\* leaves the cache alone; no entry is ever evicted or replaced; a key with no
\* asset gives None on every call and never adds an entry.
C14_IconCacheMemoizes ==
    /\ [](\A p \in icon_cache :
              /\ p[3] = 1
              /\ Cached(icon_cache, <<p[1], p[2]>>) = {p}
              /\ <<p[1], p[2]>> \in IconFiles)
    /\ [](\A key \in IconKeys :
              \E r \in {get_weather_icon(icon_cache, key[1], key[2])} :
                  /\ Cached(icon_cache, key) # {} =>
                         r.img \in icon_cache /\ r.cache = icon_cache
                  /\ key \notin IconFiles => r.img = NoPhoto /\ r.cache = icon_cache
                  /\ get_weather_icon(r.cache, key[1], key[2]) = r)
    /\ [][icon_cache \subseteq icon_cache']_vars

\* a cycle on data set 2 after one on data set 1: 02d@2x was asked for in both and
\* is cached once, 10n@4x has no file and the big icon is still the one of set 1
C14_Witness ==
    /\ lastCycle = "ok"
    /\ city_label = <<"London">>
    /\ big_icon_label = <<"01d", "@4x", 1>>
    /\ Cached(icon_cache, <<"02d", "@2x">>) = {<<"02d", "@2x", 1>>}
    /\ Cached(icon_cache, <<"10n", "@4x">>) = {}

TickTimer == <<TickMs, "scroll_alerts">>

\* C15: the ticker loop never ends: every tick, the one whose access to the
\* banner fails included, arms exactly one next tick at 35 ms, and in every
\* state after startup exactly one ticker timer is pending.
C15_TickerAlwaysRearmed ==
    /\ [](NPending("scroll_alerts") = 1)
    /\ [][(\E t \in Pending("scroll_alerts") : scroll_alerts(t) \/ scroll_alerts_error(t)) =>
              /\ CopiesIn(TickTimer, timers') = 1
              /\ \A u \in BagToSet(timers') : u[2] = "scroll_alerts" => u = TickTimer]_vars

\* a tick has run with the banner still (or again) at 800, as after a tick that
\* failed on the banner: its 35 ms successor is the one ticker timer pending,
\* here while a fetch is outstanding
C15_Witness ==
    /\ inflight = 1
    /\ alert_x = StartX
    /\ BagIn(TickTimer, timers)
    /\ NPending("scroll_alerts") = 1

\* C16: the cursor is hidden only by the firing of the hide timer that the last
\* interaction armed (no interaction came after it); right after every
\* interaction the cursor is shown, cursor_visible is true and a fresh hide
\* timer is pending; cursor_visible always tells whether the cursor is shown.
C16_IdleCursorDebounce ==
    /\ [](cursor_visible <=> cursor # "none")
    /\ [][reset_cursor_timer =>
              /\ cursor' # "none"
              /\ cursor_visible'
              /\ hide_timer' = "pending"
              /\ BagIn(HideTimer, timers')]_vars
    /\ [][cursor # "none" /\ cursor' = "none" =>
              /\ hide_timer = "pending"
              /\ CopiesIn(HideTimer, timers) = 1
              /\ ~BagIn(HideTimer, timers')]_vars

\* the hide timer fired: the cursor is hidden and no hide timer is left
C16_Witness ==
    /\ cursor = "none"
    /\ ~cursor_visible
    /\ NPending("hide_cursor") = 0

\* C17: ticker and refresh write disjoint parts of the banner: a refresh cycle
\* leaves the offset as it is, whatever it does to text and colour; a tick
\* changes the offset and leaves text and colour as they are, so a tick after a
\* text replacement goes on from the offset the banner had.
C17_TickerAndRefreshDisjoint ==
    /\ [][CycleResolves => alert_x' = alert_x]_vars
    /\ [][(\E t \in Pending("scroll_alerts") : scroll_alerts(t)) =>
              /\ UNCHANGED <<alert_msg, alert_bg, alert_fill>>
              /\ alert_x' = ScrollTo(alert_x)]_vars

\* the banner has scrolled three ticks and shows the alert of a cycle
C17_Witness ==
    /\ lastCycle = "ok"
    /\ alert_bg = "darkred"
    /\ alert_x = StartX - 3 * ScrollStep
    /\ BagIn(RefreshTimer, timers)

\* an entry that holds nothing but blanks
Blank(e) == \A i \in 1 .. Len(e) : e[i] = " "

\* C18: a setup submission with a field that is empty after trimming is
\* rejected without effect: stored settings, credentials in memory, pending
\* timers and render targets stay as they are, no fetch starts, and the dialog
\* stays open.
C18_RejectedSaveHasNoEffect ==
    [][dialogs > 0 /\ ~msgbox =>
          \A ek \in KeyInputs, elt \in LatInputs, eln \in LonInputs :
              (Blank(ek) \/ Blank(elt) \/ Blank(eln)) /\ save(ek, elt, eln) =>
                  /\ UNCHANGED <<db, api_key, lat, lon, timers, inflight, origin, lastCycle>>
                  /\ UNCHANGED <<render, icon_cache, alert_x>>
                  /\ dialogs' = dialogs]_vars

\* a submission was rejected on a configured, refreshed display: the warning is
\* up over the open dialog
C18_Witness ==
    /\ msgbox
    /\ dialogs > 0
    /\ Configured
    /\ lastCycle = "ok"

\* C19: the credentials in the settings table and the ones in memory agree after
\* startup and after every save attempt, the ones a write error of the settings
\* store interrupts part-way through the three writes included.
C19_StoreAgreesWithMemory ==
    /\ api_key = db["api_key"]
    /\ lat = db["lat"]
    /\ lon = db["lon"]

\* C20: completeness of the credentials is stable: once all three are
\* non-empty no step makes one of them empty again, a refresh timer is pending
\* only over complete credentials, and so a cycle that a timer or a save
\* starts never takes the early return of update_weather: it enters the fetch.
C20_CompletenessIsStable ==
    /\ [][Configured => Configured']_vars
    /\ [](Pending("update_weather") # {} => Configured)
    /\ [][(\E t \in Pending("update_weather") : update_weather_timer(t)) =>
              Configured /\ inflight' = inflight + 1 /\ origin' = "timer"]_vars
    /\ [][dialogs' < dialogs /\ <<api_key, lat, lon>>' # <<api_key, lat, lon>> =>
              Configured' /\ inflight' = inflight + 1 /\ origin' = "save"]_vars

\* a timer-driven cycle is in its fetch on credentials that a save replaced
C20_Witness ==
    /\ Configured
    /\ api_key = <<"q">>
    /\ origin = "timer"
    /\ inflight = 1

====
